---- MODULE Spec2Model ----
(***************************************************************************)
(* A model of src/main.py of justRAGit: a command-line RAG pipeline.       *)
(*                                                                         *)
(* The process imports the module (reading the API key, loading .env),     *)
(* indexes one PDF into the vector store's collection "Article" and then   *)
(* answers queries in a loop until the user types q.  The vector store     *)
(* outlives the process, so a behaviour is a sequence of process runs      *)
(* over one store.                                                         *)
(*                                                                         *)
(* A text is an opaque string; a joined context is the sequence of its     *)
(* pieces (texts and separators), so that "".join() is concatenation and   *)
(* the empty string is the empty sequence.  Python's None is the string    *)
(* "None" where the value is otherwise a string, as f"{None}" formats it.  *)
(* Scores are certainties in hundredths (0..100).                          *)
(***************************************************************************)
EXTENDS Naturals, Sequences, FiniteSets, TLC

VARIABLES
    pc,          \* position of the process: "off", "main", "loop", "done", "exited", "crashed", and "rerank"/"reranked" for the re-ranker alone
    environ,     \* os.environ of the process
    dotenv_file, \* the contents of the .env file the process was started beside
    api_key,     \* the module global api_key
    args,        \* the parsed command line: --top_k and --pdf_file
    collection,  \* the vector store's class collection_name: [exists, objects]
    idx,         \* this process's call of index(): its document, its outcome, the collection's size before
    q,           \* the last iteration of the query loop
    called,      \* the external services this process has called
    sent,        \* the Authorization headers this process has sent to the embedding service
    exit_code,   \* the process's exit status, "None" while it runs
    error        \* the uncaught exception that ended the process, "None" if none

vars == <<pc, environ, dotenv_file, api_key, args, collection, idx, q, called, sent, exit_code, error>>

(***************************************************************************)
(* Bounds of the model.                                                    *)
(***************************************************************************)
MaxPages == 2      \* pages of a document
SmallPage == 3     \* chunks of a short page (two of them exceed top_p)
BigPage == 99      \* chunks of a long page (two of them overflow a batch)
MaxCands == 3      \* candidates handed to the re-ranker alone

(***************************************************************************)
(* Program constants.                                                      *)
(***************************************************************************)
batch_size == 100
TopP == 4
DefaultTopK == 5

collection_name == "Article"
KEY == "OPENAI_API_KEY"
None == "None"
SEP == "\n\n"
KeyErrorText == "Failed to process results due to key error."
EmptyDict == <<>>

Min(a, b) == IF a <= b THEN a ELSE b

(***************************************************************************)
(* Python dictionaries are functions; d.get(k, default) and os.getenv.     *)
(***************************************************************************)
Get(d, k, default) == IF k \in DOMAIN d THEN d[k] ELSE default

getenv(env, name) == Get(env, name, None)

\* dotenv.load_dotenv(): override=False, a variable already set is kept.
load_dotenv(env, file) ==
    [k \in (DOMAIN env) \cup (DOMAIN file) |-> IF k \in DOMAIN env THEN env[k] ELSE file[k]]

(***************************************************************************)
(* Documents.  docLoader gives the pages; chunkRecursively gives each      *)
(* page's chunk list (never an empty chunk).  A document is modelled by    *)
(* the chunk lists of its pages.                                           *)
(***************************************************************************)
PageSizes == {0, SmallPage}
LongPageSizes == {0, 1, BigPage}

ChunkText(n, k) == "p" \o ToString(n) \o "c" \o ToString(k)

Page(n) == [k \in 1..n |-> ChunkText(n, k)]

RECURSIVE SeqsUpTo(_, _)
SeqsUpTo(S, n) ==
    IF n = 0 THEN {<<>>}
    ELSE LET shorter == SeqsUpTo(S, n - 1)
         IN  shorter \cup {Append(s, x) : s \in shorter, x \in S}

Docs == SeqsUpTo({Page(n) : n \in PageSizes}, MaxPages)
LongDocs == SeqsUpTo({Page(n) : n \in LongPageSizes}, MaxPages)

\* What can go wrong in one run of index(): nothing, the loader raises, the
\* chunker raises (on the first page), create_class raises, or the first or
\* second batch request raises.
Faults == {"none", "load", "chunk", "create", "batch1", "batch2"}

FailAt(fault) == IF fault = "batch1" THEN 1 ELSE IF fault = "batch2" THEN 2 ELSE 0

(***************************************************************************)
(* index(): main.py lines 70-118.                                          *)
(***************************************************************************)
\* Lines 76-79: the chunk lists of the pages, concatenated in page order.
RECURSIVE Flatten(_)
Flatten(chunked_doc) ==
    IF chunked_doc = <<>> THEN <<>>
    ELSE Head(chunked_doc) \o Flatten(Tail(chunked_doc))

\* A variant that numbers the chunks within their batch.
data_object_in_batch(chunk, i) == [chunk |-> chunk, chunk_index |-> i % batch_size]

\* Lines 110-113.
data_object(chunk, i) == [chunk |-> chunk, chunk_index |-> i]

delete_class(coll) == [exists |-> FALSE, objects |-> <<>>]

create_class(coll) == [exists |-> TRUE, objects |-> <<>>]

\* Lines 103-104.
dropped(coll) == IF coll.exists THEN delete_class(coll) ELSE coll

\* A variant that creates the class only when it is missing.
recreate_if_missing(coll) == IF coll.exists THEN coll ELSE create_class(coll)

\* Lines 103-105.
recreate(coll) == create_class(dropped(coll))

\* Lines 107-114: the client's batch buffers the objects added and sends a
\* request each time batch_size of them are buffered, and once more, for the
\* rest, when the with-block ends.  A failing request raises out of index();
\* what earlier requests wrote stays.  stored: the objects written so far;
\* i: the index enumerate() gives next; nflush: the requests sent so far.
RECURSIVE batch_add(_, _, _, _, _)
batch_add(stored, vector_store, i, nflush, failAt) ==
    LET n == Min(batch_size, Len(vector_store) - i)
        buffer == [j \in 1..n |-> data_object(vector_store[i + j], i + j - 1)]
    IN  IF n = 0 THEN [objects |-> stored, ok |-> TRUE]
        ELSE IF nflush + 1 = failAt THEN [objects |-> stored, ok |-> FALSE]
        ELSE batch_add(stored \o buffer, vector_store, i + n, nflush + 1, failAt)

\* A variant that drops the old class before it loads the file.
index_drop_first(coll, doc, fault) ==
    IF fault = "load" THEN [collection |-> dropped(coll), outcome |-> "load_failed"]
    ELSE IF fault = "chunk" /\ doc # <<>>
    THEN [collection |-> dropped(coll), outcome |-> "chunk_failed"]
    ELSE IF fault = "create" THEN [collection |-> dropped(coll), outcome |-> "create_failed"]
    ELSE LET w == batch_add(<<>>, Flatten(doc), 0, 0, FailAt(fault))
         IN  [collection |-> [exists |-> TRUE, objects |-> w.objects],
              outcome |-> IF w.ok THEN "ok" ELSE "batch_failed"]

\* The collection index() leaves and how it ended.  doc: what the loader and
\* the chunker return for the file, page by page.
index(coll, doc, fault) ==
    IF fault = "load" THEN [collection |-> coll, outcome |-> "load_failed"]
    ELSE IF fault = "chunk" /\ doc # <<>> THEN [collection |-> coll, outcome |-> "chunk_failed"]
    ELSE LET vector_store == Flatten(doc)
         IN  IF fault = "create"
             THEN [collection |-> dropped(coll), outcome |-> "create_failed"]
             ELSE LET created == recreate(coll)
                      w == batch_add(created.objects, vector_store, 0, 0, FailAt(fault))
                  IN  [collection |-> [exists |-> TRUE, objects |-> w.objects],
                       outcome |-> IF w.ok THEN "ok" ELSE "batch_failed"]

(***************************************************************************)
(* The embedding service and embed_text(): main.py lines 25-45.            *)
(***************************************************************************)
HttpStatuses == {200, 401}

\* Line 30: the Authorization header the request carries.
authorization(key) == <<"Bearer", key>>

\* Lines 40-45: the embeddings on 200; otherwise the function falls off its
\* end and returns None.
embed_text(text, status_code) ==
    IF status_code = 200
    THEN [none |-> FALSE, data |-> <<[embedding |-> "vector"]>>]
    ELSE [none |-> TRUE, data |-> <<>>]

(***************************************************************************)
(* The vector store's answer to a nearVector query asking for ["chunk"]    *)
(* with the additional property certainty: the hits under                  *)
(* data.Get.<class>, each hit with its chunk and, under _additional, its   *)
(* certainty (main.py lines 141-142).                                      *)
(***************************************************************************)
\* One hit.  The store returns the additional properties asked for under
\* the key "_additional".  score: <<c>>, or <<>> when the store leaves the
\* score out.
Hit(chunk, score) ==
    IF score = <<>> THEN ("chunk" :> chunk)
    ELSE ("chunk" :> chunk) @@ ("_additional" :> ("certainty" :> score[1]))

\* The certainty the store reports for its j-th hit, in a few patterns.
Certainty(pattern, j) ==
    CASE pattern = "equal" -> <<90>>
      [] pattern = "rising" -> <<50 + j>>
      [] pattern = "omitted" -> <<>>
      [] pattern = "first_omitted" -> IF j = 1 THEN <<>> ELSE <<80>>

Reverse(s) == [j \in 1..Len(s) |-> s[Len(s) + 1 - j]]

\* min(top_k, size) objects of the collection, nearest first: the order is
\* the store's, here the insertion order or its reverse.
Hits(coll, top_k, order, pattern) ==
    LET objs == IF order = "reverse" THEN Reverse(coll.objects) ELSE coll.objects
        n == Min(top_k, Len(objs))
    IN  [j \in 1..n |-> Hit(objs[j].chunk, Certainty(pattern, j))]

WellFormed(hits) == "data" :> ("Get" :> (collection_name :> hits))

\* The answers considered: an order of the hits and a pattern of scores.
HitShapes ==
    {<<"insertion", "rising">>, <<"reverse", "equal">>,
     <<"insertion", "omitted">>, <<"reverse", "first_omitted">>}

\* A response lacking a key the code reads: the whole data, Get, the class,
\* or the chunk of the last hit.
Malformed(hits) ==
    {("errors" :> <<"message">>),
     ("data" :> EmptyDict),
     ("data" :> ("Get" :> EmptyDict))}
    \cup (IF hits = <<>> THEN {}
          ELSE {WellFormed([hits EXCEPT ![Len(hits)] = ("_additional" :> ("certainty" :> 70))])})

StoreResponses(coll, top_k) ==
    {WellFormed(Hits(coll, top_k, shape[1], shape[2])) : shape \in HitShapes}
    \cup Malformed(Hits(coll, top_k, "insertion", "rising"))

(***************************************************************************)
(* queries(): main.py lines 138-159.                                       *)
(***************************************************************************)
\* The first key whose lookup raises KeyError in lines 146-147, "" if none.
MissingKey(result) ==
    IF "data" \notin DOMAIN result THEN "data"
    ELSE IF "Get" \notin DOMAIN result["data"] THEN "Get"
    ELSE IF collection_name \notin DOMAIN result["data"]["Get"] THEN collection_name
    ELSE LET hits == result["data"]["Get"][collection_name]
         IN  IF \E j \in 1..Len(hits) : "chunk" \notin DOMAIN hits[j] THEN "chunk" ELSE ""

\* Line 149.
certainty_of(res) == Get(Get(res, "additional", EmptyDict), "certainty", 0)

\* Lines 146-150, for a response no lookup fails on.
results_with_scores(result) ==
    LET hits == result["data"]["Get"][collection_name]
    IN  [j \in 1..Len(hits) |-> <<hits[j]["chunk"], certainty_of(hits[j])>>]

\* A variant that puts x before the elements of its own score.
RECURSIVE InsertDescUnstable(_, _)
InsertDescUnstable(s, x) ==
    IF s = <<>> THEN <<x>>
    ELSE IF Head(s)[2] > x[2] THEN <<Head(s)>> \o InsertDescUnstable(Tail(s), x)
    ELSE <<x>> \o s

\* x put behind every element whose score is not smaller than its own.
RECURSIVE InsertDesc(_, _)
InsertDesc(s, x) ==
    IF s = <<>> THEN <<x>>
    ELSE IF Head(s)[2] >= x[2] THEN <<Head(s)>> \o InsertDesc(Tail(s), x)
    ELSE <<x>> \o s

\* Line 155: sorted(results, key=score, reverse=True); Python's sort is
\* stable, and stays so under reverse=True.
RECURSIVE sorted_desc(_)
sorted_desc(s) ==
    IF s = <<>> THEN <<>>
    ELSE InsertDesc(sorted_desc(SubSeq(s, 1, Len(s) - 1)), s[Len(s)])

\* sep.join(texts), as the sequence of its pieces.
RECURSIVE join(_, _)
join(sep, texts) ==
    IF texts = <<>> THEN <<>>
    ELSE IF Len(texts) = 1 THEN texts
    ELSE <<Head(texts), sep>> \o join(sep, Tail(texts))

\* Lines 155-157.
rerank(candidates, top_p) ==
    LET sorted_results == sorted_desc(candidates)
        top_p_results == SubSeq(sorted_results, 1, Min(top_p, Len(sorted_results)))
    IN  join(SEP, [j \in 1..Len(top_p_results) |-> top_p_results[j][1]])

\* One call of queries(): the header of the embedding request, whether the
\* store was queried, the candidates built, and either the value returned
\* or the exception raised.  result is the store's answer, read only when
\* the store is queried.
queries(query, top_k, top_p, key, status_code, result) ==
    LET embeddings == embed_text(query, status_code)
        base == [header |-> authorization(key), retrieved |-> FALSE, candidates |-> <<>>,
                 returned |-> FALSE, value |-> <<>>, raised |-> None]
    IN  IF embeddings.none
        THEN [base EXCEPT !.raised = "TypeError"]               \* None[0], line 140
        ELSE IF MissingKey(result) # ""
        THEN [base EXCEPT !.retrieved = TRUE, !.returned = TRUE,
                          !.value = <<KeyErrorText>>]            \* lines 151-153
        ELSE LET cands == results_with_scores(result)
             IN  [base EXCEPT !.retrieved = TRUE, !.candidates = cands,
                              !.returned = TRUE, !.value = rerank(cands, top_p)]

(***************************************************************************)
(* answer_query(): main.py lines 163-180.  The chain renders the prompt    *)
(* from the question and the context and calls the model, whatever the     *)
(* context is.                                                             *)
(***************************************************************************)
\* A variant that answers locally when there is no context.
answer_query_guarded(query, context, llm_ok) ==
    IF context = <<>>
    THEN [invoked |-> FALSE, question |-> query, context |-> context, raised |-> None]
    ELSE [invoked |-> TRUE, question |-> query, context |-> context,
          raised |-> IF llm_ok THEN None ELSE "GenerationError"]

answer_query(query, context, llm_ok) ==
    [invoked |-> TRUE, question |-> query, context |-> context,
     raised |-> IF llm_ok THEN None ELSE "GenerationError"]

(***************************************************************************)
(* The process.                                                            *)
(***************************************************************************)
\* The record of one loop iteration: the embedding request (status_code,
\* header), the store's answer if the store was asked (retrieved, result),
\* results_with_scores (candidates), whether queries() returned and what
\* (returned, context), whether the model was called and with what
\* (llm_invoked, llm_context), whether the model service answers (llm_ok),
\* and whether an answer was printed (answered).
NoQuery ==
    [status_code |-> 0, result |-> EmptyDict, candidates |-> <<>>, top_p |-> 0,
     header |-> <<>>, retrieved |-> FALSE, returned |-> FALSE, context |-> <<>>,
     llm_ok |-> FALSE, processed |-> FALSE, input |-> "", llm_invoked |-> FALSE,
     llm_context |-> <<>>, answered |-> FALSE]

NoIndex == [doc |-> <<>>, outcome |-> "", ran |-> FALSE, prior_exists |-> FALSE, prior_count |-> 0]

Environs == {EmptyDict, (KEY :> "sk-env")}
DotenvFiles == {EmptyDict, (KEY :> "sk-file")}
PdfArgs == {None, "", "doc.pdf"}
TopKs == {2, DefaultTopK}
Inputs == {"q", "quit"}

Init ==
    /\ pc = "off"
    /\ environ = EmptyDict
    /\ dotenv_file = EmptyDict
    /\ api_key = None
    /\ args = [top_k |-> DefaultTopK, pdf_file |-> None]
    /\ collection = [exists |-> FALSE, objects |-> <<>>]
    /\ idx = NoIndex
    /\ q = NoQuery
    /\ called = {}
    /\ sent = {}
    /\ exit_code = <<>>
    /\ error = None

\* A process is started and imports the module: lines 12-49.  Line 20 reads
\* the key from the environment, line 48 loads .env, and line 49 writes the
\* key back, which raises TypeError when it is None.
Start(env, file, pdf, k) ==
    /\ pc \in {"off", "done", "exited", "crashed"}
    /\ LET loaded == load_dotenv(env, file)
       IN  /\ api_key' = getenv(env, KEY)
           /\ environ' = loaded
           /\ IF getenv(loaded, KEY) = None
              THEN pc' = "crashed" /\ error' = "TypeError" /\ exit_code' = <<1>>
              ELSE pc' = "main" /\ error' = None /\ exit_code' = <<>>
    /\ dotenv_file' = file
    /\ args' = [top_k |-> k, pdf_file |-> pdf]
    /\ q' = NoQuery
    /\ called' = {}
    /\ sent' = {}
    /\ idx' = NoIndex
    /\ UNCHANGED collection

\* A variant that indexes whatever the command line was.
has_pdf_always(a) == TRUE

\* Line 195: the truth value of args.pdf_file.
has_pdf(a) == a.pdf_file \notin {None, ""}

\* Lines 193-199.
Main(doc, fault) ==
    /\ pc = "main"
    /\ IF has_pdf(args)
       THEN LET r == index(collection, doc, fault)
            IN  /\ collection' = r.collection
                /\ idx' = [doc |-> doc, outcome |-> r.outcome, ran |-> TRUE,
                           prior_exists |-> collection.exists,
                           prior_count |-> Len(collection.objects)]
                /\ IF r.outcome = "ok"
                   THEN pc' = "loop" /\ UNCHANGED <<exit_code, error>>
                   ELSE pc' = "crashed" /\ exit_code' = <<1>> /\ error' = r.outcome
       ELSE /\ pc' = "exited"
            /\ exit_code' = <<1>>
            /\ UNCHANGED <<collection, idx, error>>
    /\ UNCHANGED <<environ, dotenv_file, api_key, args, q, called, sent>>

\* One iteration of the loop, lines 201-208.
Loop(input, status_code, llm_ok) ==
    /\ pc = "loop"
    /\ IF input = "q"
       THEN /\ pc' = "done"
            /\ exit_code' = <<0>>
            /\ UNCHANGED <<q, called, sent, error>>
       ELSE \E result \in StoreResponses(collection, args.top_k) :
            LET r == queries(input, args.top_k, TopP, api_key, status_code, result)
                a == answer_query(input, r.value, llm_ok)
                ok == r.returned /\ a.raised = None
            IN  /\ q' = [status_code |-> status_code,
                         result |-> IF r.retrieved THEN result ELSE EmptyDict,
                         candidates |-> r.candidates,
                         top_p |-> TopP,
                         header |-> r.header,
                         retrieved |-> r.retrieved,
                         returned |-> r.returned,
                         context |-> r.value,
                         llm_ok |-> r.returned /\ llm_ok,
                         processed |-> TRUE,
                         input |-> input,
                         llm_invoked |-> r.returned /\ a.invoked,
                         llm_context |-> IF r.returned /\ a.invoked THEN a.context ELSE <<>>,
                         answered |-> ok]
                /\ sent' = sent \cup {r.header}
                /\ called' = called \cup {"embedder"}
                             \cup (IF r.retrieved THEN {"store"} ELSE {})
                             \cup (IF r.returned /\ a.invoked THEN {"llm"} ELSE {})
                /\ IF ok THEN pc' = "loop" /\ UNCHANGED <<exit_code, error>>
                   ELSE /\ pc' = "crashed"
                        /\ exit_code' = <<1>>
                        /\ error' = IF r.returned THEN a.raised ELSE r.raised
    /\ UNCHANGED <<environ, dotenv_file, api_key, args, collection, idx>>

Next ==
    \/ \E env \in Environs, file \in DotenvFiles, pdf \in PdfArgs, k \in TopKs :
           Start(env, file, pdf, k)
    \/ \E doc \in Docs, fault \in Faults : Main(doc, fault)
    \/ \E input \in Inputs, status_code \in HttpStatuses, llm_ok \in BOOLEAN :
           Loop(input, status_code, llm_ok)

Spec == Init /\ [][Next]_vars

\* The same process over long documents, with the key in the environment
\* and a user who quits at the first prompt.
NextIndex ==
    \/ \E pdf \in PdfArgs :
           Start((KEY :> "sk-env"), EmptyDict, pdf, DefaultTopK)
    \/ \E doc \in LongDocs, fault \in Faults : Main(doc, fault)
    \/ Loop("q", 200, TRUE)

SpecIndex == Init /\ [][NextIndex]_vars

(***************************************************************************)
(* The re-ranker alone (lines 155-157), over every short candidate list.   *)
(***************************************************************************)
CandTexts == {"x", "y", "z"}
CandScores == {0, 70, 95}
CandLists == SeqsUpTo(CandTexts \X CandScores, MaxCands)

InitRerank ==
    /\ pc = "rerank"
    /\ environ = EmptyDict
    /\ dotenv_file = EmptyDict
    /\ api_key = None
    /\ args = [top_k |-> DefaultTopK, pdf_file |-> None]
    /\ collection = [exists |-> FALSE, objects |-> <<>>]
    /\ idx = NoIndex
    /\ \E c \in CandLists, p \in 1..TopP : q = [NoQuery EXCEPT !.candidates = c, !.top_p = p]
    /\ called = {}
    /\ sent = {}
    /\ exit_code = <<>>
    /\ error = None

Rerank ==
    /\ pc = "rerank"
    /\ pc' = "reranked"
    /\ q' = [q EXCEPT !.returned = TRUE, !.context = rerank(q.candidates, q.top_p)]
    /\ UNCHANGED <<environ, dotenv_file, api_key, args, collection, idx, called, sent,
                   exit_code, error>>

NextRerank == Rerank

SpecRerank == InitRerank /\ [][NextRerank]_vars

(***************************************************************************)
(* What the claims are stated with.  None of it uses the operators that    *)
(* model the code above, except to read the store's answer.                *)
(***************************************************************************)
NumTexts(context) == (Len(context) + 1) \div 2

\* The place candidate i takes when the list is put in descending order of
\* score with equal scores left in their order.
Rank(c, i) ==
    Cardinality({j \in 1..Len(c) : c[j][2] > c[i][2]})
    + Cardinality({j \in 1..(i - 1) : c[j][2] = c[i][2]}) + 1

AtRank(c, k) == CHOOSE i \in 1..Len(c) : Rank(c, i) = k

\* The chunks before page p of a document.
RECURSIVE Offset(_, _)
Offset(doc, p) == IF p = 1 THEN 0 ELSE Offset(doc, p - 1) + Len(doc[p - 1])

ChunkCount(doc) == Offset(doc, Len(doc) + 1)

\* The chunk at position i (from 0) of the document's flattened sequence.
FlatAt(doc, i) ==
    LET p == CHOOSE r \in 1..Len(doc) : Offset(doc, r) <= i /\ i < Offset(doc, r) + Len(doc[r])
    IN  doc[p][i - Offset(doc, p) + 1]

Places(doc) == UNION {{<<p, k>> : k \in 1..Len(doc[p])} : p \in 1..Len(doc)}

\* The objects hold the chunks of the document, each as often as the document.
SameChunks(objs, doc) ==
    /\ Len(objs) = ChunkCount(doc)
    /\ \A j \in 1..Len(objs) :
           Cardinality({i \in 1..Len(objs) : objs[i].chunk = objs[j].chunk})
           = Cardinality({pk \in Places(doc) : doc[pk[1]][pk[2]] = objs[j].chunk})

\* The score the store returned for a hit, 0 if it returned none.
StoreScore(hit) ==
    IF "_additional" \in DOMAIN hit /\ "certainty" \in DOMAIN hit["_additional"]
    THEN hit["_additional"]["certainty"] ELSE 0

HitsOf(result) == result["data"]["Get"][collection_name]

\* The credential available to the process: the environment's, else .env's.
Credential == Get(environ, KEY, Get(dotenv_file, KEY, None))

(***************************************************************************)
(* C1: the context the re-ranker returns is the texts of the first         *)
(* min(top_p, len) candidates in descending order of score, equal scores   *)
(* in retrieval order, joined by "\n\n"; with top_p >= len every candidate *)
(* text appears, once.                                                     *)
(***************************************************************************)
C1_RerankStableTopP ==
    pc = "reranked" =>
        LET c == q.candidates
            m == Min(q.top_p, Len(c))
        IN  /\ Len(q.context) = IF m = 0 THEN 0 ELSE 2 * m - 1
            /\ \A k \in 1..m : q.context[2 * k - 1] = c[AtRank(c, k)][1]
            /\ \A k \in 1..(m - 1) : q.context[2 * k] = SEP
            /\ q.top_p >= Len(c) => NumTexts(q.context) = Len(c)

\* Scenario B of the specification: a tie at 0.95 behind a 0.7, top_p = 2.
C1_Witness ==
    /\ pc = "reranked"
    /\ q.candidates = <<<<"x", 70>>, <<"y", 95>>, <<"z", 95>>>>
    /\ q.top_p = 2
    /\ q.context = <<"y", SEP, "z">>

(***************************************************************************)
(* C2: after a successful index() the collection holds exactly the chunks  *)
(* of that run's document and nothing of earlier runs, and indexing a      *)
(* document over the collection that indexing it left changes nothing.     *)
(***************************************************************************)
C2_OnlyLastRun ==
    (idx.ran /\ idx.outcome = "ok") =>
        collection.exists /\ SameChunks(collection.objects, idx.doc)

C2_SameDocTwice ==
    (pc = "main" /\ idx'.ran /\ idx'.outcome = "ok"
        /\ collection.exists /\ Len(collection.objects) = ChunkCount(idx'.doc)
        /\ \A j \in 1..Len(collection.objects) :
               collection.objects[j] = [chunk |-> FlatAt(idx'.doc, j - 1), chunk_index |-> j - 1])
    => collection' = collection

C2_FullReplace == [](C2_OnlyLastRun) /\ [][C2_SameDocTwice]_vars

\* A successful run over a collection that held more chunks than the new
\* document has.
C2_Witness ==
    /\ idx.ran /\ idx.outcome = "ok"
    /\ idx.prior_exists
    /\ idx.prior_count > Len(collection.objects)
    /\ Len(collection.objects) > 0

(***************************************************************************)
(* C3: a malformed store response ends the query in an explicit failure:   *)
(* nothing is handed to the Answerer as context and the model is not       *)
(* invoked.                                                                *)
(***************************************************************************)
C3_MalformedIsExplicitFailure ==
    (q.processed /\ q.retrieved /\ MissingKey(q.result) # "") =>
        ~q.returned /\ ~q.llm_invoked

(***************************************************************************)
(* C4: a non-200 answer of the embedding service fails that query only:    *)
(* no retrieval, no re-ranking, no answering, and the loop goes on (the    *)
(* process is at the prompt, or has left it by q).                         *)
(***************************************************************************)
C4_EmbeddingFailureKeepsLoop ==
    (q.processed /\ q.status_code # 200) =>
        /\ ~q.retrieved
        /\ ~q.returned
        /\ ~q.llm_invoked
        /\ pc \in {"loop", "done"}

(***************************************************************************)
(* C5: after a successful index() the chunk_index values are exactly       *)
(* 0..N-1 without duplicates, and the object with chunk_index i holds the  *)
(* i-th chunk of the pages' chunk lists concatenated in page order.        *)
(***************************************************************************)
C5_ChunkIndexIsPosition ==
    (idx.ran /\ idx.outcome = "ok") =>
        LET objs == collection.objects
            N == ChunkCount(idx.doc)
        IN  /\ Len(objs) = N
            /\ {objs[j].chunk_index : j \in 1..Len(objs)} = 0..(N - 1)
            /\ \A j \in 1..Len(objs) : objs[j].chunk = FlatAt(idx.doc, objs[j].chunk_index)

\* Two pages, written in more than one batch.
C5_Witness ==
    /\ idx.ran /\ idx.outcome = "ok"
    /\ Len(idx.doc) = 2
    /\ Len(idx.doc[1]) > 0 /\ Len(idx.doc[2]) > 0
    /\ Len(collection.objects) > batch_size

(***************************************************************************)
(* C6: each candidate carries the score the store returned for its hit,    *)
(* and 0 only where the store returned none.                               *)
(***************************************************************************)
C6_CandidateCarriesStoreScore ==
    (q.processed /\ q.retrieved /\ MissingKey(q.result) = "") =>
        /\ Len(q.candidates) = Len(HitsOf(q.result))
        /\ \A j \in 1..Len(q.candidates) : q.candidates[j][2] = StoreScore(HitsOf(q.result)[j])

(***************************************************************************)
(* C7: without a credential the process stops before any embedding         *)
(* request; with one, from the environment or from .env, every embedding   *)
(* request carries it.                                                     *)
(***************************************************************************)
C7_RequestsCarryCredential ==
    /\ (pc # "off" /\ Credential = None) => (pc = "crashed" /\ sent = {})
    /\ \A header \in sent : header = <<"Bearer", Credential>> /\ header[2] # None

(***************************************************************************)
(* C8: a query against an empty collection, the services answering, ends   *)
(* without error: no candidates, the empty string as context, and the      *)
(* model invoked with it.                                                  *)
(***************************************************************************)
C8_EmptyCollectionStillAnswers ==
    (q.processed /\ q.status_code = 200 /\ q.llm_ok /\ collection.objects = <<>>
        /\ MissingKey(q.result) = "") =>
        /\ q.retrieved
        /\ HitsOf(q.result) = <<>>
        /\ q.candidates = <<>>
        /\ q.returned /\ q.context = <<>>
        /\ q.llm_invoked /\ q.llm_context = <<>>
        /\ q.answered
        /\ error = None
        /\ pc \in {"loop", "done"}

C8_Witness ==
    /\ q.processed /\ q.status_code = 200 /\ q.llm_ok
    /\ collection.exists /\ collection.objects = <<>>
    /\ MissingKey(q.result) = ""
    /\ q.llm_invoked
    /\ pc = "loop"

(***************************************************************************)
(* C9: nothing is embedded, retrieved or answered before index() has       *)
(* returned; without --pdf_file the process exits non-zero having indexed  *)
(* and processed nothing; q ends the loop without a call to the embedder,  *)
(* the store or the model; any other input is a query with top_p = 4.      *)
(***************************************************************************)
C9_Order ==
    /\ (called # {} \/ sent # {} \/ q.processed \/ pc \in {"loop", "done"})
           => (idx.ran /\ idx.outcome = "ok")
    /\ (args.pdf_file = None /\ pc \notin {"off", "main"}) =>
           /\ pc \in {"exited", "crashed"}
           /\ exit_code # <<>> /\ exit_code[1] # 0
           /\ ~idx.ran /\ called = {} /\ ~q.processed
    /\ q.processed =>
           /\ q.input # "q"
           /\ q.top_p = 4
           /\ (q.returned /\ MissingKey(q.result) = "")
                  => NumTexts(q.context) = Min(4, Len(q.candidates))

C9_Steps ==
    /\ (pc = "loop" /\ pc' = "done") =>
           called' = called /\ sent' = sent /\ q' = q /\ collection' = collection
    /\ (pc = "main" /\ args.pdf_file = None) => (collection' = collection /\ idx' = idx)

C9_MainFlow == [](C9_Order) /\ [][C9_Steps]_vars

\* The loop was entered, a query with five candidates got a context of four
\* texts, and q ended the loop.
C9_Witness ==
    /\ pc = "done"
    /\ q.processed /\ q.answered
    /\ Len(q.candidates) = 5
    /\ NumTexts(q.context) = 4

(***************************************************************************)
(* C10: when loading or chunking fails, index() leaves the collection as   *)
(* it was: it touches the store only after every page is chunked.          *)
(***************************************************************************)
C10_LoadFailureStep ==
    (pc = "main" /\ idx'.ran /\ idx'.outcome \in {"load_failed", "chunk_failed"})
    => collection' = collection

C10_LoadBeforeStore == [][C10_LoadFailureStep]_vars

C10_Witness ==
    /\ idx.ran /\ idx.outcome = "chunk_failed"
    /\ idx.prior_exists /\ idx.prior_count > 0
    /\ collection.exists /\ Len(collection.objects) = idx.prior_count

====
